---------------------------- MODULE Spec2Model ----------------------------
(***************************************************************************)
(* A model of scripts/publish.py: the command-line dispatcher, the three   *)
(* publish handlers (build loop, artifact glob, upload loop) and the       *)
(* delete handler (credential lookup, index fetch, delete loop).           *)
(*                                                                         *)
(* Python strings that the code inspects (file names, path components,     *)
(* .env lines, environment keys and values) are sequences of one-letter    *)
(* strings, so that substring tests, stripping, partitioning and sorting   *)
(* are computed.  Strings the code only compares for equality (argv        *)
(* words, scenario names, subdirectories) are TLA+ strings.                *)
(*                                                                         *)
(* Spec runs every command line, with all targets, over a channel index of *)
(* two file names; SpecDelete deletes one scenario over an index of three; *)
(* SpecEnv deletes one scenario under every environment and .env file.     *)
(***************************************************************************)
EXTENDS Integers, Sequences, FiniteSets, TLC

VARIABLES
    argv,       \* sys.argv, argv[1] being the program name
    environ,    \* os.environ: a function from the set keys to their values
    envFile,    \* ROOT/.env: NoFile, or the lines read_text().splitlines() gives
    disk,       \* scenario name -> files under OUTPUT_DIR/name (relative paths)
    pc,         \* position of the process
    outcome,    \* how the process ended, "running" until then
    handlers,   \* main's local: the handlers still to call, as [action, name]
    invoked,    \* the handlers called so far, in call order
    name,       \* the running handler's local `name`
    builds,     \* the build_recipe calls the running handler has left
    uploads,    \* the upload_package calls the running handler has left
    api_key,    \* delete_packages' local
    repodata,   \* the last index document list_packages fetched
    filenames,  \* delete_packages' local: the file names still to delete
    calls,      \* every external call made so far, in order
    stdout      \* what main and get_api_key printed

vars == <<argv, environ, envFile, disk, pc, outcome, handlers, invoked, name,
          builds, uploads, api_key, repodata, filenames, calls, stdout>>

-----------------------------------------------------------------------------
(* Python strings as sequences of characters *)

\* ord(c) for the characters the model's strings are made of
Ord(c) ==
    CASE c = "\t" -> 9   [] c = " " -> 32  [] c = "#" -> 35  [] c = "-" -> 45
      [] c = "." -> 46   [] c = "0" -> 48  [] c = "1" -> 49  [] c = "2" -> 50
      [] c = "3" -> 51   [] c = "5" -> 53  [] c = "6" -> 54  [] c = "4" -> 52
      [] c = "=" -> 61   [] c = "A" -> 65  [] c = "E" -> 69  [] c = "F" -> 70
      [] c = "G" -> 71   [] c = "H" -> 72  [] c = "I" -> 73  [] c = "K" -> 75
      [] c = "O" -> 79   [] c = "P" -> 80  [] c = "R" -> 82  [] c = "T" -> 84
      [] c = "X" -> 88   [] c = "Y" -> 89  [] c = "_" -> 95  [] c = "a" -> 97
      [] c = "c" -> 99   [] c = "d" -> 100 [] c = "e" -> 101 [] c = "j" -> 106
      [] c = "l" -> 108  [] c = "h" -> 104 [] c = "i" -> 105 [] c = "m" -> 109
      [] c = "n" -> 110  [] c = "o" -> 111 [] c = "p" -> 112 [] c = "r" -> 114
      [] c = "s" -> 115  [] c = "t" -> 116 [] c = "u" -> 117 [] c = "v" -> 118
      [] c = "x" -> 120  [] c = "y" -> 121

\* s < t for Python str: lexicographic by code point
RECURSIVE StrLess(_, _)
StrLess(s, t) ==
    IF s = <<>> THEN t # <<>>
    ELSE IF t = <<>> THEN FALSE
    ELSE IF Ord(Head(s)) # Ord(Head(t)) THEN Ord(Head(s)) < Ord(Head(t))
    ELSE StrLess(Tail(s), Tail(t))

\* s.startswith(prefix)
StartsWith(s, prefix) ==
    /\ Len(prefix) <= Len(s)
    /\ SubSeq(s, 1, Len(prefix)) = prefix

\* s.endswith(suffix)
EndsWith(s, suffix) ==
    /\ Len(suffix) <= Len(s)
    /\ SubSeq(s, Len(s) - Len(suffix) + 1, Len(s)) = suffix

\* needle in s
Contains(s, needle) ==
    \E i \in 1..(Len(s) - Len(needle) + 1) :
        SubSeq(s, i, i + Len(needle) - 1) = needle

\* str.isspace() for one character
IsSpace(c) == c \in {" ", "\t"}

\* s.strip()
RECURSIVE LStrip(_)
LStrip(s) == IF s # <<>> /\ IsSpace(Head(s)) THEN LStrip(Tail(s)) ELSE s

RECURSIVE RStrip(_)
RStrip(s) ==
    IF s # <<>> /\ IsSpace(s[Len(s)]) THEN RStrip(SubSeq(s, 1, Len(s) - 1)) ELSE s

Strip(s) == RStrip(LStrip(s))

\* s.partition("="): <<before, sep, after>>, <<s, "", "">> when there is no "="
Partition(s) ==
    IF \E i \in 1..Len(s) : s[i] = "="
    THEN LET i == CHOOSE j \in 1..Len(s) :
                      s[j] = "=" /\ \A k \in 1..(j - 1) : s[k] # "="
         IN  <<SubSeq(s, 1, i - 1), <<"=">>, SubSeq(s, i + 1, Len(s))>>
    ELSE <<s, <<>>, <<>>>>

\* a pathlib.Path relative to its root is the sequence of its components;
\* Path.__lt__ compares the component lists
RECURSIVE PathLess(_, _)
PathLess(p, q) ==
    IF p = <<>> THEN q # <<>>
    ELSE IF q = <<>> THEN FALSE
    ELSE IF Head(p) # Head(q) THEN StrLess(Head(p), Head(q))
    ELSE PathLess(Tail(p), Tail(q))

\* sorted(xs), keys[i] being what xs[i] is compared by (a path; a str is
\* the path of one component): each element in turn is inserted before the
\* first one greater than it (a stable sort, as Python's is)
InsertIndex(n, s, keys) ==
    LET later == {i \in 1..Len(s) : PathLess(keys[n], keys[s[i]])}
        p == IF later = {} THEN Len(s) + 1
             ELSE CHOOSE i \in later : \A j \in later : i <= j
    IN  SubSeq(s, 1, p - 1) \o <<n>> \o SubSeq(s, p, Len(s))

Sorted(xs, keys) ==
    LET f[n \in 0..Len(xs)] ==
            IF n = 0 THEN <<>> ELSE InsertIndex(n, f[n - 1], keys)
    IN  [i \in 1..Len(xs) |-> xs[f[Len(xs)][i]]]

\* Path.name: the last component
PathName(p) == p[Len(p)]

\* some enumeration of a finite set, the order a directory scan happens to give
RECURSIVE Listing(_)
Listing(S) ==
    IF S = {} THEN <<>>
    ELSE LET x == CHOOSE y \in S : TRUE IN <<x>> \o Listing(S \ {x})

Range(s) == {s[i] : i \in 1..Len(s)}

-----------------------------------------------------------------------------
(* The program's constants *)

\* PACKAGES: the registry, in the dict's insertion order
PACKAGES ==
    << [name |-> "all-signed",            subdir |-> "noarch"],
       [name |-> "last-version-unsigned", subdir |-> "noarch"],
       [name |-> "variants-unsigned",     subdir |-> "linux-64"] >>

\* list(PACKAGES)
PackageNames == [i \in 1..Len(PACKAGES) |-> PACKAGES[i].name]

\* PACKAGES[name]
PackageSubdir(n) ==
    LET i == CHOOSE j \in 1..Len(PACKAGES) : PACKAGES[j].name = n
    IN  PACKAGES[i].subdir

\* "PREFIX_API_KEY", the variable get_api_key reads
PREFIX_API_KEY == <<"P","R","E","F","I","X","_","A","P","I","_","K","E","Y">>

\* the literals of the publish handlers
RecipeYaml   == <<"r","e","c","i","p","e",".","y","a","m","l">>
VariantsYaml == <<"v","a","r","i","a","n","t","s",".","y","a","m","l">>
DotConda     == <<".","c","o","n","d","a">>
V150         == <<"1",".","5",".","0">>
Py312        == <<"p","y","3","1","2">>

-----------------------------------------------------------------------------
(* Build and upload helpers *)

\* build_recipe: the rattler-build command it runs.  variant_config is a path
\* or <<>> for None, target_platform a string or "" for None.
build_recipe(recipe_path, output_dir, variant_config, target_platform) ==
    [op         |-> "build",
     recipe     |-> recipe_path,
     output_dir |-> output_dir,
     options    |-> (IF variant_config # <<>> THEN <<"-m">> ELSE <<>>)
                    \o (IF target_platform # ""
                        THEN <<"--target-platform", target_platform>> ELSE <<>>),
     variant_config |-> variant_config]

\* upload_package: the rattler-build upload command it runs.  pkg_path is
\* [output_dir, rel]: the file rel under OUTPUT_DIR/output_dir.
upload_package(pkg_path, generate_attestation) ==
    [op         |-> "upload",
     options    |-> IF generate_attestation
                    THEN <<"--generate-attestation">> ELSE <<>>,
     output_dir |-> pkg_path.output_dir,
     pkg        |-> pkg_path.rel]

\* pkg.name of a package path
PkgName(pkg_path) == PathName(pkg_path.rel)

\* sorted(output_dir.rglob("*.conda")) over the files on disk
GlobConda(files, output_dir) ==
    LET found == Listing({[output_dir |-> output_dir, rel |-> f] :
                    f \in {g \in files : EndsWith(PathName(g), DotConda)}})
    IN  Sorted(found, [i \in 1..Len(found) |-> found[i].rel])

-----------------------------------------------------------------------------
(* Delete helpers *)

\* os.environ[key] = value in place of setdefault: the file overrides
SetItem(env, key, value) ==
    [k \in DOMAIN env \cup {key} |-> IF k = key THEN value ELSE env[k]]

\* os.environ.setdefault(key, value)
SetDefault(env, key, value) ==
    IF key \in DOMAIN env THEN env
    ELSE [k \in DOMAIN env \cup {key} |-> IF k = key THEN value ELSE env[k]]

\* the loop of load_env over the lines of the file
RECURSIVE LoadLines(_, _)
LoadLines(env, lines) ==
    IF lines = <<>> THEN env
    ELSE LET line == Strip(Head(lines)) IN
         IF line = <<>> \/ StartsWith(line, <<"#">>)
         THEN LoadLines(env, Tail(lines))
         ELSE LET parts == Partition(line) IN
              LoadLines(SetDefault(env, Strip(parts[1]), Strip(parts[3])),
                        Tail(lines))

\* load_env: os.environ after it ran
load_env(env, file) ==
    IF ~file.exists THEN env ELSE LoadLines(env, file.lines)

\* os.environ.get(key): <<value>>, or <<>> for None
EnvGet(env, key) == IF key \in DOMAIN env THEN <<env[key]>> ELSE <<>>

\* `api_key is None` in place of `not api_key`: "" passes for a key
IsNone(got) == got = <<>>

\* `not api_key`: None and "" are both falsy
NotApiKey(got) == got = <<>> \/ got[1] = <<>>

\* repodata.get("packages.conda", {}): the entries, in the document's order
PackagesConda(doc) == IF doc.has_packages_conda THEN doc.packages_conda ELSE <<>>

\* list_packages returning `matching` as collected, not sorted
list_packages_unsorted(doc, package_name) ==
    LET entries  == PackagesConda(doc)
        keep(e)  == e.info_name = package_name
    IN  [i \in 1..Len(SelectSeq(entries, keep)) |->
            SelectSeq(entries, keep)[i].filename]

\* list_packages: the sorted file names of the entries named package_name
list_packages(doc, package_name) ==
    LET entries  == PackagesConda(doc)
        keep(e)  == e.info_name = package_name
        matching == [i \in 1..Len(SelectSeq(entries, keep)) |->
                        SelectSeq(entries, keep)[i].filename]
    IN  Sorted(matching, [i \in 1..Len(matching) |-> <<matching[i]>>])

\* urllib raises HTTPError for every status outside 2xx
RaisesHTTPError(code) == ~(200 <= code /\ code < 300)

\* delete_package without its `raise`: every HTTPError is swallowed
delete_package_swallowing(code) == TRUE

\* delete_package without its `except`: a 404 is raised like any error
delete_package_raising_404(code) == ~RaisesHTTPError(code)

\* delete_package: TRUE when it returns, FALSE when it re-raises
delete_package(code) == ~RaisesHTTPError(code) \/ code = 404

-----------------------------------------------------------------------------
(* The world outside the process: what the file system, the build tool and  *)
(* the server may hold or answer.                                           *)

P100 == <<"p","-","1",".","0",".","0">> \o DotConda
P150 == <<"p","-","1",".","5",".","0">> \o DotConda
P200 == <<"p","-","2",".","0",".","0">> \o DotConda
P312 == <<"p","-">> \o Py312 \o DotConda
P313 == <<"p","-","p","y","3","1","3">> \o DotConda
RepodataJson == <<"r","e","p","o","d","a","t","a",".","j","s","o","n">>
Noarch  == <<"n","o","a","r","c","h">>
Linux64 == <<"l","i","n","u","x","-","6","4">>

\* the files a build may leave under OUTPUT_DIR/name: the packages of the
\* scenario's versions or variants, the index the build tool writes beside
\* them, and a package below a directory whose name holds "1.5.0"
ArtifactFiles(n) ==
    CASE n = "all-signed" ->
            {<<Noarch, P100>>, <<Noarch, P200>>, <<Noarch, RepodataJson>>}
      [] n = "last-version-unsigned" ->
            {<<Noarch, P100>>, <<Noarch, P150>>, <<Noarch, P200>>,
             <<V150, P200>>}
      [] n = "variants-unsigned" ->
            {<<Linux64, P312>>, <<Linux64, P313>>, <<Linux64, RepodataJson>>}

\* the exit statuses of rattler-build
ReturnCodes == {0, 1}

\* the statuses the server answers a DELETE with
DeleteStatuses == {200, 404, 403, 500}

\* the statuses a failed GET of the index raises HTTPError with
GetErrorStatuses == {404, 500}

\* the entries of ROOT/recipes/name: the version directories and a stray file
RecipesDir(n) ==
    CASE n = "all-signed" ->
            {[name |-> <<"v","1">>, is_dir |-> TRUE],
             [name |-> <<"v","2">>, is_dir |-> TRUE],
             [name |-> <<"v","1",".","t","x","t">>, is_dir |-> FALSE]}
      [] n = "last-version-unsigned" ->
            {[name |-> <<"v","2">>, is_dir |-> TRUE],
             [name |-> <<"v","1",".","5">>, is_dir |-> TRUE],
             [name |-> <<"v","1">>, is_dir |-> TRUE],
             [name |-> <<"v","1",".","t","x","t">>, is_dir |-> FALSE]}
      [] OTHER -> {}

\* the injective sequences over S
InjectiveSeqs(S) ==
    UNION {{s \in [1..n -> S] : \A i, j \in 1..n : i # j => s[i] # s[j]} :
              n \in 0..Cardinality(S)}

\* the index documents over the file names `files`: with no "packages.conda"
\* key, or with entries in any order, each named after some registered package
Repodatas(files) ==
    {[has_packages_conda |-> FALSE, packages_conda |-> <<>>]}
    \cup UNION {{[has_packages_conda |-> TRUE,
                  packages_conda |-> [i \in 1..Len(fs) |->
                        [filename |-> fs[i], info_name |-> ns[i]]]] :
                    ns \in [1..Len(fs) -> Range(PackageNames)]} :
                 fs \in InjectiveSeqs(files)}

-----------------------------------------------------------------------------
(* Publish handlers *)

\* `for version_dir in sorted(recipes.iterdir())`, skipping what is no
\* directory: the build_recipe calls of the loop
VersionBuilds(n) ==
    LET found   == Listing(RecipesDir(n))
        entries == Sorted(found, [i \in 1..Len(found) |-> <<found[i].name>>])
        is_dir(e) == e.is_dir
        dirs == SelectSeq(entries, is_dir)
    IN  [i \in 1..Len(dirs) |->
            build_recipe(<<dirs[i].name, RecipeYaml>>, n, <<>>, "")]

publish_all_signed_builds == VersionBuilds("all-signed")

publish_all_signed_uploads(packages) ==
    [i \in 1..Len(packages) |-> upload_package(packages[i], TRUE)]

publish_last_version_unsigned_builds == VersionBuilds("last-version-unsigned")

\* the uploads of "last-version-unsigned" in sorted order, not signed first
publish_last_version_unsigned_in_order(packages) ==
    [i \in 1..Len(packages) |->
        upload_package(packages[i], ~Contains(PkgName(packages[i]), V150))]

publish_last_version_unsigned_uploads(packages) ==
    LET is_signed(p)   == ~Contains(PkgName(p), V150)
        is_unsigned(p) == Contains(PkgName(p), V150)
        signed_pkgs    == SelectSeq(packages, is_signed)
        unsigned_pkgs  == SelectSeq(packages, is_unsigned)
    IN  [i \in 1..Len(signed_pkgs) |-> upload_package(signed_pkgs[i], TRUE)]
        \o [i \in 1..Len(unsigned_pkgs) |->
                upload_package(unsigned_pkgs[i], FALSE)]

publish_variants_unsigned_builds ==
    << build_recipe(<<RecipeYaml>>, "variants-unsigned",
                    <<VariantsYaml>>, "linux-64") >>

\* the uploads of "variants-unsigned" with every package signed
publish_variants_all_signed(packages) ==
    [i \in 1..Len(packages) |-> upload_package(packages[i], TRUE)]

publish_variants_unsigned_uploads(packages) ==
    [i \in 1..Len(packages) |->
        upload_package(packages[i], Contains(PkgName(packages[i]), Py312))]

\* the build calls of the publish handler of scenario n
Builds(n) ==
    CASE n = "all-signed"            -> publish_all_signed_builds
      [] n = "last-version-unsigned" -> publish_last_version_unsigned_builds
      [] n = "variants-unsigned"     -> publish_variants_unsigned_builds

\* the upload calls of the publish handler of scenario n
Uploads(n, packages) ==
    CASE n = "all-signed"            -> publish_all_signed_uploads(packages)
      [] n = "last-version-unsigned" ->
            publish_last_version_unsigned_uploads(packages)
      [] n = "variants-unsigned"     ->
            publish_variants_unsigned_uploads(packages)

\* subprocess.run(cmd) without check=True: a failed build goes unnoticed
BuildReturnsUnchecked(returncode) == TRUE

\* subprocess.run(cmd, check=True): TRUE when it returns, FALSE when it
\* raises CalledProcessError
BuildReturns(returncode) == returncode = 0

UploadReturns(returncode) == returncode = 0

-----------------------------------------------------------------------------
(* main *)

\* the keys of main's `actions`, in the dict's order
ActionNames == <<"publish", "delete">>

\* a handler dict that lacks the last scenario
HandlerNamesShort(action) ==
    IF action = "publish"
    THEN <<"all-signed", "last-version-unsigned">>
    ELSE PackageNames

\* the keys of actions[action], in the dict's order
HandlerNames(action) ==
    IF action = "publish"
    THEN <<"all-signed", "last-version-unsigned", "variants-unsigned">>
    ELSE PackageNames

\* lines 211-222 without the final else: an unknown target does nothing
select_handlers_no_else(action, target) ==
    LET names == HandlerNames(action) IN
    IF target = "all"
    THEN [exit |-> FALSE, out |-> <<>>,
          handlers |-> [i \in 1..Len(names) |->
                            [action |-> action, name |-> names[i]]]]
    ELSE IF target \in Range(names)
    THEN [exit |-> FALSE, out |-> <<>>,
          handlers |-> <<[action |-> action, name |-> target]>>]
    ELSE [exit |-> FALSE, out |-> <<>>, handlers |-> <<>>]

\* main, lines 211-222: the handlers the target selects, or the refusal of
\* an unknown target
select_handlers(action, target) ==
    LET names == HandlerNames(action) IN
    IF target = "all"
    THEN [exit |-> FALSE, out |-> <<>>,
          handlers |-> [i \in 1..Len(names) |->
                            [action |-> action, name |-> names[i]]]]
    ELSE IF target \in Range(names)
    THEN [exit |-> FALSE, out |-> <<>>,
          handlers |-> <<[action |-> action, name |-> target]>>]
    ELSE [exit |-> TRUE,
          out |-> <<"Unknown package", "Choose from: names, all">>,
          handlers |-> <<>>]

\* main up to its calls of the handlers: what it prints, whether it calls
\* sys.exit(1), and the handlers it goes on to call
main(av) ==
    IF Len(av) < 2
    THEN [exit |-> TRUE, out |-> <<"Usage: <publish|delete> <names|all>">>,
          handlers |-> <<>>]
    ELSE IF av[2] \notin Range(ActionNames)
    THEN [exit |-> TRUE,
          out |-> <<"Unknown action", "Choose from: publish, delete">>,
          handlers |-> <<>>]
    ELSE IF Len(av) < 3
    THEN [exit |-> TRUE, out |-> <<"Usage: <action> <names|all>">>,
          handlers |-> <<>>]
    ELSE select_handlers(av[2], av[3])

\* get_api_key: os.environ after load_env, and the key or the exit
get_api_key(env, file) ==
    LET merged == load_env(env, file)
        got    == EnvGet(merged, PREFIX_API_KEY)
    IN  [environ |-> merged,
         exit    |-> NotApiKey(got),
         api_key |-> IF NotApiKey(got) THEN <<>> ELSE got[1]]

-----------------------------------------------------------------------------
(* The inputs of a run *)

\* the most lines of a .env file
MaxEnvLines == 2

OtherVar == <<"O","T","H","E","R">>

NoFile == [exists |-> FALSE, lines |-> <<>>]

LineKeyF     == PREFIX_API_KEY \o <<"=","F">>
LineSpacedG  == <<" ">> \o PREFIX_API_KEY \o <<" ","="," ","G","\t">>
LineComment  == <<"#"," ">> \o PREFIX_API_KEY \o <<"=","F">>
LineBlank    == <<" ">>
LineOtherF   == OtherVar \o <<"=","F","=","G">>
LineKeyAlone == PREFIX_API_KEY

EnvLines ==
    {LineKeyF, LineSpacedG, LineComment, LineBlank, LineOtherF, LineKeyAlone}

\* every .env file of at most MaxEnvLines lines, and there being none
EnvFiles ==
    {NoFile} \cup {[exists |-> TRUE, lines |-> ls] :
                      ls \in UNION {[1..n -> EnvLines] : n \in 0..MaxEnvLines}}

\* three .env files: none, one that only comments the key out, one that sets it
FewEnvFiles ==
    {NoFile, [exists |-> TRUE, lines |-> <<LineComment>>],
     [exists |-> TRUE, lines |-> <<LineBlank, LineKeyF>>]}

\* the process environment: the key unset, empty or set
FewEnvirons ==
    {<<>>, (PREFIX_API_KEY :> <<>>), (PREFIX_API_KEY :> <<"P">>)}

\* the same, with or without another variable set
Environs ==
    FewEnvirons \cup {(OtherVar :> <<"x">>) @@ e : e \in FewEnvirons}

Program == "publish.py"

\* the command lines: no argument, an action alone, an action and a target
Argvs ==
    {<<Program>>}
    \cup {<<Program, a>> : a \in {"publish", "delete", "bogus"}}
    \cup {<<Program, a, t>> :
            a \in {"publish", "delete", "bogus"},
            t \in Range(PackageNames) \cup {"all", "nope"}}

EmptyRepodata == [has_packages_conda |-> FALSE, packages_conda |-> <<>>]

\* the state of a process that has not run a line of main yet
Start ==
    /\ disk = [n \in Range(PackageNames) |-> {}]
    /\ pc = "start"
    /\ outcome = "running"
    /\ handlers = <<>>
    /\ invoked = <<>>
    /\ name = ""
    /\ builds = <<>>
    /\ uploads = <<>>
    /\ api_key = <<>>
    /\ repodata = EmptyRepodata
    /\ filenames = <<>>
    /\ calls = <<>>
    /\ stdout = <<>>

Init ==
    /\ argv \in Argvs
    /\ environ \in FewEnvirons
    /\ envFile \in FewEnvFiles
    /\ Start

-----------------------------------------------------------------------------
(* The steps of the process *)

\* main, lines 188-222, up to the first handler call
Main ==
    /\ pc = "start"
    /\ LET m == main(argv) IN
        /\ stdout' = stdout \o m.out
        /\ handlers' = m.handlers
        /\ pc' = IF m.exit THEN "exit" ELSE "dispatch"
        /\ outcome' = IF m.exit THEN "SystemExit(1)" ELSE outcome
    /\ UNCHANGED <<argv, environ, envFile, disk, invoked, name, builds, uploads,
                   api_key, repodata, filenames, calls>>

\* main calls the next handler: handler() at line 216 or 218, up to the
\* handler's first external call
CallHandler ==
    /\ pc = "dispatch"
    /\ handlers # <<>>
    /\ LET h == Head(handlers) IN
        /\ invoked' = Append(invoked, h)
        /\ name' = h.name
        /\ builds' = IF h.action = "publish" THEN Builds(h.name) ELSE <<>>
        /\ pc' = IF h.action = "publish"
                 THEN (IF Builds(h.name) = <<>> THEN "glob" ELSE "build")
                 ELSE "get_api_key"
    /\ handlers' = Tail(handlers)
    /\ UNCHANGED <<argv, environ, envFile, disk, outcome, uploads, api_key,
                   repodata, filenames, calls, stdout>>

\* main returns: every handler was called and returned
Return ==
    /\ pc = "dispatch"
    /\ handlers = <<>>
    /\ pc' = "done"
    /\ outcome' = "returned"
    /\ UNCHANGED <<argv, environ, envFile, disk, handlers, invoked, name,
                   builds, uploads, api_key, repodata, filenames, calls, stdout>>

\* one build_recipe call of the running publish handler: the tool leaves
\* what files it will and exits with some status
Build ==
    /\ pc = "build"
    /\ \E returncode \in ReturnCodes, built \in SUBSET ArtifactFiles(name) :
        /\ calls' = Append(calls, [op |-> "build", cmd |-> Head(builds),
                                   returncode |-> returncode])
        /\ disk' = [disk EXCEPT ![name] = @ \cup built]
        /\ IF BuildReturns(returncode)
           THEN /\ builds' = Tail(builds)
                /\ pc' = IF Tail(builds) = <<>> THEN "glob" ELSE "build"
                /\ outcome' = outcome
           ELSE /\ builds' = builds
                /\ pc' = "exit"
                /\ outcome' = "CalledProcessError"
    /\ UNCHANGED <<argv, environ, envFile, handlers, invoked, name, uploads,
                   api_key, repodata, filenames, stdout>>

\* the running publish handler lists the packages it built and decides each
\* one's upload
Glob ==
    /\ pc = "glob"
    /\ LET todo == Uploads(name, GlobConda(disk[name], name)) IN
        /\ uploads' = todo
        /\ pc' = IF todo = <<>> THEN "dispatch" ELSE "upload"
    /\ UNCHANGED <<argv, environ, envFile, disk, outcome, handlers, invoked,
                   name, builds, api_key, repodata, filenames, calls, stdout>>

\* one upload_package call of the running publish handler
Upload ==
    /\ pc = "upload"
    /\ \E returncode \in ReturnCodes :
        /\ calls' = Append(calls, [op |-> "upload", cmd |-> Head(uploads),
                                   returncode |-> returncode])
        /\ IF UploadReturns(returncode)
           THEN /\ uploads' = Tail(uploads)
                /\ pc' = IF Tail(uploads) = <<>> THEN "dispatch" ELSE "upload"
                /\ outcome' = outcome
           ELSE /\ uploads' = uploads
                /\ pc' = "exit"
                /\ outcome' = "CalledProcessError"
    /\ UNCHANGED <<argv, environ, envFile, disk, handlers, invoked, name,
                   builds, api_key, repodata, filenames, stdout>>

\* delete_packages, lines 113-114: the credential lookup
GetApiKey ==
    /\ pc = "get_api_key"
    /\ LET k == get_api_key(environ, envFile) IN
        /\ environ' = k.environ
        /\ api_key' = k.api_key
        /\ pc' = IF k.exit THEN "exit" ELSE "list_packages"
        /\ outcome' = IF k.exit THEN "SystemExit(1)" ELSE outcome
        /\ stdout' = IF k.exit
                     THEN Append(stdout, "Error: PREFIX_API_KEY not found")
                     ELSE stdout
    /\ calls' = Append(calls, [op |-> "load_env"])
    /\ UNCHANGED <<argv, envFile, disk, handlers, invoked, name, builds,
                   uploads, repodata, filenames>>

\* delete_packages, lines 115-118: the index fetch, answered with one of
\* `docs` or with an error status
ListPackagesOf(docs) ==
    /\ pc = "list_packages"
    /\ \/ \E status \in GetErrorStatuses :
            /\ calls' = Append(calls, [op |-> "GET",
                                       subdir |-> PackageSubdir(name),
                                       status |-> status])
            /\ pc' = "exit"
            /\ outcome' = "HTTPError"
            /\ UNCHANGED <<repodata, filenames, stdout>>
       \/ \E doc \in docs :
            /\ calls' = Append(calls, [op |-> "GET",
                                       subdir |-> PackageSubdir(name),
                                       status |-> 200])
            /\ repodata' = doc
            /\ filenames' = list_packages(doc, name)
            /\ pc' = IF list_packages(doc, name) = <<>>
                     THEN "dispatch" ELSE "delete_package"
            /\ stdout' = IF list_packages(doc, name) = <<>>
                         THEN Append(stdout, "No packages found")
                         ELSE stdout
            /\ outcome' = outcome
    /\ UNCHANGED <<argv, environ, envFile, disk, handlers, invoked, name,
                   builds, uploads, api_key>>

\* one delete_package call of the loop at lines 119-120
DeletePackage ==
    /\ pc = "delete_package"
    /\ \E status \in DeleteStatuses :
        /\ calls' = Append(calls, [op |-> "DELETE",
                                   subdir |-> PackageSubdir(name),
                                   filename |-> Head(filenames),
                                   api_key |-> api_key,
                                   status |-> status])
        /\ IF delete_package(status)
           THEN /\ filenames' = Tail(filenames)
                /\ pc' = IF Tail(filenames) = <<>>
                         THEN "dispatch" ELSE "delete_package"
                /\ outcome' = outcome
           ELSE /\ filenames' = filenames
                /\ pc' = "exit"
                /\ outcome' = "HTTPError"
    /\ UNCHANGED <<argv, environ, envFile, disk, handlers, invoked, name,
                   builds, uploads, api_key, repodata, stdout>>

\* the index over two file names
ListPackages == ListPackagesOf(Repodatas({P100, P200}))

Next ==
    \/ Main
    \/ CallHandler
    \/ Return
    \/ Build
    \/ Glob
    \/ Upload
    \/ GetApiKey
    \/ ListPackages
    \/ DeletePackage

Spec == Init /\ [][Next]_vars

\* Deleting one scenario against a channel index over three file names
InitDelete ==
    /\ argv \in {<<Program, "delete", t>> : t \in Range(PackageNames)}
    /\ environ \in FewEnvirons
    /\ envFile \in FewEnvFiles
    /\ Start

ListPackagesOfThree == ListPackagesOf(Repodatas({P100, P150, P200}))

NextDelete ==
    \/ Main
    \/ CallHandler
    \/ Return
    \/ GetApiKey
    \/ ListPackagesOfThree
    \/ DeletePackage

SpecDelete == InitDelete /\ [][NextDelete]_vars

\* Deleting one scenario under every environment and every .env file
InitEnv ==
    /\ argv = <<Program, "delete", "variants-unsigned">>
    /\ environ \in Environs
    /\ envFile \in EnvFiles
    /\ Start

NextEnv ==
    \/ Main
    \/ CallHandler
    \/ Return
    \/ GetApiKey
    \/ ListPackages
    \/ DeletePackage

SpecEnv == InitEnv /\ [][NextEnv]_vars

-----------------------------------------------------------------------------
(* What the properties below speak of *)

CallIndices == 1..Len(calls)

\* the upload calls made so far for scenario n, in order
UploadsOf(n) ==
    LET is_upload(c) == c.op = "upload" /\ c.cmd.output_dir = n
    IN  SelectSeq(calls, is_upload)

\* the build calls made so far for scenario n, in order
BuildsOf(n) ==
    LET is_build(c) == c.op = "build" /\ c.cmd.output_dir = n
    IN  SelectSeq(calls, is_build)

Attested(c) == "--generate-attestation" \in Range(c.cmd.options)

\* the handler of scenario n was called and has returned
HandlerReturned(n) ==
    \E i \in 1..Len(invoked) :
        /\ invoked[i].name = n
        /\ i < Len(invoked) \/ pc \in {"dispatch", "done"}

\* the *.conda files under OUTPUT_DIR/n
CondaFiles(n) == {f \in disk[n] : EndsWith(PathName(f), DotConda)}

PublishRun ==
    /\ Len(argv) >= 3
    /\ argv[2] = "publish"
    /\ argv[3] \in {"all-signed", "last-version-unsigned", "variants-unsigned",
                    "all"}

DeleteRun ==
    /\ Len(argv) >= 3
    /\ argv[2] = "delete"
    /\ argv[3] \in {"all-signed", "last-version-unsigned", "variants-unsigned",
                    "all"}

-----------------------------------------------------------------------------
\* C1: in "last-version-unsigned" an upload carries the attestation flag
\* exactly when the file name does not contain "1.5.0", every attested upload
\* comes before every unattested one, and once the handler has returned every
\* built package was uploaded exactly once.
C1_LastVersionUnsigned ==
    LET U == UploadsOf("last-version-unsigned") IN
    /\ \A i \in 1..Len(U) :
          Attested(U[i]) <=> ~Contains(PathName(U[i].cmd.pkg), V150)
    /\ \A i, j \in 1..Len(U) :
          (Attested(U[i]) /\ ~Attested(U[j])) => i < j
    /\ (PublishRun /\ HandlerReturned("last-version-unsigned")) =>
          /\ {U[i].cmd.pkg : i \in 1..Len(U)}
                = CondaFiles("last-version-unsigned")
          /\ Len(U) = Cardinality(CondaFiles("last-version-unsigned"))

\* 1.0.0, 1.5.0 and 2.0.0 were built: uploaded as 1.0.0 attested, 2.0.0
\* attested, 1.5.0 unattested
C1_Witness ==
    LET U == UploadsOf("last-version-unsigned") IN
    /\ HandlerReturned("last-version-unsigned")
    /\ Len(U) = 3
    /\ U[1].cmd.pkg = <<Noarch, P100>> /\ Attested(U[1])
    /\ U[2].cmd.pkg = <<Noarch, P200>> /\ Attested(U[2])
    /\ U[3].cmd.pkg = <<Noarch, P150>> /\ ~Attested(U[3])

\* C6: in "variants-unsigned" an upload carries the attestation flag exactly
\* when the file name contains "py312", and once the handler has returned
\* every built package was uploaded.
C6_VariantsUnsigned ==
    LET U == UploadsOf("variants-unsigned") IN
    /\ \A i \in 1..Len(U) :
          Attested(U[i]) <=> Contains(PathName(U[i].cmd.pkg), Py312)
    /\ (PublishRun /\ HandlerReturned("variants-unsigned")) =>
          {U[i].cmd.pkg : i \in 1..Len(U)} = CondaFiles("variants-unsigned")

\* py312 and py313 were built: only py312 is uploaded with attestation
C6_Witness ==
    LET U == UploadsOf("variants-unsigned") IN
    /\ HandlerReturned("variants-unsigned")
    /\ Len(U) = 2
    /\ U[1].cmd.pkg = <<Linux64, P312>> /\ Attested(U[1])
    /\ U[2].cmd.pkg = <<Linux64, P313>> /\ ~Attested(U[2])

\* the recipes the publish handler of scenario n is to build
RecipesToBuild(n) ==
    IF n = "variants-unsigned" THEN {<<RecipeYaml>>}
    ELSE {<<e.name, RecipeYaml>> : e \in {d \in RecipesDir(n) : d.is_dir}}

\* C8: a build that exits non-zero is the last external call of the run and
\* ends it with the error; and when an upload of a scenario was started, every
\* recipe of the scenario had been built before it, each with exit status 0.
C8_BuildsBeforeUploads ==
    /\ \A i \in CallIndices :
          (calls[i].op = "build" /\ calls[i].returncode # 0) =>
              /\ i = Len(calls)
              /\ pc = "exit"
              /\ outcome = "CalledProcessError"
    /\ \A j \in CallIndices :
          calls[j].op = "upload" =>
              LET n == calls[j].cmd.output_dir
                  B == {i \in CallIndices :
                          calls[i].op = "build" /\ calls[i].cmd.output_dir = n}
              IN  /\ \A i \in B : i < j /\ calls[i].returncode = 0
                  /\ {calls[i].cmd.recipe : i \in B} = RecipesToBuild(n)
                  /\ Cardinality(B) = Cardinality(RecipesToBuild(n))

\* under target "all", "all-signed" was built and uploaded, then a build of
\* "last-version-unsigned" failed: nothing follows it
C8_Witness ==
    /\ argv = <<Program, "publish", "all">>
    /\ Len(UploadsOf("all-signed")) = 2
    /\ Len(BuildsOf("last-version-unsigned")) = 2
    /\ calls[Len(calls)].op = "build"
    /\ calls[Len(calls)].returncode = 1
    /\ pc = "exit"

-----------------------------------------------------------------------------
\* the registered scenarios, in registry order
RegistryOrder == <<"all-signed", "last-version-unsigned", "variants-unsigned">>

\* the external calls a handler of the action makes
CallsOfAction(action) ==
    IF action = "publish" THEN {"build", "upload"}
    ELSE {"load_env", "GET", "DELETE"}

\* the place of a scenario in the registry
RegistryIndex(n) == CHOOSE i \in 1..Len(RegistryOrder) : RegistryOrder[i] = n

\* C9: on a valid command line main calls the handlers of the given action
\* only, those of the target ("all": every registered scenario, in registry
\* order), each at most once and one after the other, and has called every one
\* of them exactly once when it returns; no call of the other action's
\* handlers is ever made.
C9_Dispatch ==
    (PublishRun \/ DeleteRun) =>
        LET expected == IF argv[3] = "all" THEN RegistryOrder ELSE <<argv[3]>>
        IN  /\ Len(invoked) <= Len(expected)
            /\ \A i \in 1..Len(invoked) :
                  invoked[i] = [action |-> argv[2], name |-> expected[i]]
            /\ pc = "done" => Len(invoked) = Len(expected)
            /\ \A i \in CallIndices : calls[i].op \in CallsOfAction(argv[2])
            /\ \A i, j \in CallIndices :
                  (i < j /\ calls[i].op \in {"build", "upload"}) =>
                      RegistryIndex(calls[i].cmd.output_dir)
                          <= RegistryIndex(calls[j].cmd.output_dir)
            /\ argv[2] = "delete" =>
                  Len(SelectSeq(calls, LAMBDA c : c.op = "load_env"))
                      = IF pc = "get_api_key" THEN Len(invoked) - 1
                        ELSE Len(invoked)

\* "delete all" ran to its end: three handlers, in registry order
C9_Witness ==
    /\ argv = <<Program, "delete", "all">>
    /\ pc = "done"
    /\ Len(invoked) = 3
    /\ \E i \in CallIndices : calls[i].op = "DELETE"

\* a command line main rejects
BadArgv ==
    \/ Len(argv) < 3
    \/ argv[2] \notin {"publish", "delete"}
    \/ argv[3] \notin {"all-signed", "last-version-unsigned",
                       "variants-unsigned", "all"}

\* C4: on a command line with a missing argument, an unknown action or an
\* unknown target, the process prints the usage or the valid choices and exits
\* with status 1; it calls no handler, makes no external call (build, upload,
\* credential lookup, GET, DELETE), and leaves the output directories and the
\* environment as they were.
C4_UsageError ==
    /\ [](BadArgv =>
            /\ calls = <<>>
            /\ invoked = <<>>
            /\ \A n \in DOMAIN disk : disk[n] = {}
            /\ \/ pc = "start" /\ stdout = <<>>
               \/ /\ pc = "exit"
                  /\ outcome = "SystemExit(1)"
                  /\ stdout # <<>>
                  /\ \E i \in 1..Len(stdout) :
                        stdout[i] \in {"Usage: <publish|delete> <names|all>",
                                       "Usage: <action> <names|all>",
                                       "Choose from: publish, delete",
                                       "Choose from: names, all"})
    /\ [][BadArgv => (environ' = environ /\ pc' = "exit")]_vars

\* a known action with an unknown target was rejected
C4_Witness ==
    /\ argv = <<Program, "delete", "nope">>
    /\ pc = "exit"
    /\ stdout = <<"Unknown package", "Choose from: names, all">>
    /\ PREFIX_API_KEY \in DOMAIN environ
    /\ envFile.exists

\* no non-empty PREFIX_API_KEY in the environment
NoKey ==
    \/ PREFIX_API_KEY \notin DOMAIN environ
    \/ environ[PREFIX_API_KEY] = <<>>

NetworkCalls == {i \in CallIndices : calls[i].op \in {"GET", "DELETE"}}

\* C3: in a delete run, once the .env file was merged into the environment
\* and no non-empty PREFIX_API_KEY is there, the process has exited with
\* status 1 without a GET or a DELETE; and no GET or DELETE is ever made
\* before the merge.
C3_NoKeyNoNetwork ==
    /\ (DeleteRun /\ NoKey /\ \E i \in CallIndices : calls[i].op = "load_env") =>
          /\ pc = "exit"
          /\ outcome = "SystemExit(1)"
          /\ NetworkCalls = {}
    /\ \A i \in NetworkCalls :
          \E j \in 1..(i - 1) : calls[j].op = "load_env"

\* "delete all" with the key set but empty in the process and set in the file
C3_Witness ==
    /\ argv = <<Program, "delete", "all">>
    /\ pc = "exit"
    /\ outcome = "SystemExit(1)"
    /\ calls = <<[op |-> "load_env"]>>
    /\ envFile.lines = <<LineBlank, LineKeyF>>
    /\ environ = (PREFIX_API_KEY :> <<>>)

-----------------------------------------------------------------------------
\* the keys the lines of a .env file set: of every line that is neither blank
\* nor a comment, what stands before its first "=", stripped
FileKeys(file) ==
    IF ~file.exists THEN {}
    ELSE {Strip(Partition(Strip(file.lines[i]))[1]) :
            i \in {j \in 1..Len(file.lines) :
                     /\ Strip(file.lines[j]) # <<>>
                     /\ Head(Strip(file.lines[j])) # "#"}}

\* C5: the credential lookup leaves every variable that is set in the
\* environment as it is, adds exactly the keys of the .env file that are not
\* set, and a key get_api_key returns is the process's own value whenever
\* PREFIX_API_KEY was set before the lookup.
C5_SetIfAbsent ==
    [][pc = "get_api_key" =>
          /\ \A k \in DOMAIN environ :
                k \in DOMAIN environ' /\ environ'[k] = environ[k]
          /\ DOMAIN environ' = DOMAIN environ \cup FileKeys(envFile)
          /\ (pc' = "list_packages" /\ PREFIX_API_KEY \in DOMAIN environ) =>
                api_key' = environ[PREFIX_API_KEY]]_vars

\* the process had PREFIX_API_KEY=P, the file says F: P is used, and the
\* file's other variable was added
C5_Witness ==
    /\ pc = "list_packages"
    /\ api_key = <<"P">>
    /\ envFile.lines = <<LineKeyF, LineOtherF>>
    /\ environ = (PREFIX_API_KEY :> <<"P">>) @@ (OtherVar :> <<"F","=","G">>)

-----------------------------------------------------------------------------
IsDelete(c) == c.op = "DELETE"

\* an answer delete_package takes for success
Accepted(status) == (200 <= status /\ status <= 299) \/ status = 404

\* C2: a DELETE answered 404 leaves the run going, with the next file name
\* next; a DELETE answered with any other status outside 2xx ends the run
\* with the HTTP error, and no call follows it.
C2_DeleteErrors ==
    /\ [](\A i \in CallIndices :
            (IsDelete(calls[i]) /\ ~Accepted(calls[i].status)) =>
                /\ i = Len(calls)
                /\ pc = "exit"
                /\ outcome = "HTTPError")
    /\ [][pc = "delete_package" =>
            LET c == calls'[Len(calls')] IN
            /\ Len(calls') = Len(calls) + 1
            /\ IsDelete(c)
            /\ c.filename = Head(filenames)
            /\ c.status = 404 =>
                  /\ outcome' = "running"
                  /\ filenames' = Tail(filenames)
                  /\ pc' = IF Tail(filenames) = <<>>
                           THEN "dispatch" ELSE "delete_package"]_vars
    /\ [][outcome = "HTTPError" => calls' = calls]_vars

\* three file names to delete: the first answered 404, the second 500, and
\* the third never asked for
C2_Witness ==
    /\ Len(calls) = 4
    /\ IsDelete(calls[3]) /\ calls[3].status = 404
    /\ IsDelete(calls[4]) /\ calls[4].status = 500
    /\ filenames = <<P150, P200>>
    /\ pc = "exit"
    /\ outcome = "HTTPError"

\* C7: a delete run that has its key, whose index fetches succeed and whose
\* DELETE calls, if any, are all answered 404, has no fatal error: it is
\* running or has returned.
C7_DeleteIdempotent ==
    ( /\ DeleteRun
      /\ outcome # "SystemExit(1)"
      /\ \A i \in CallIndices :
            /\ calls[i].op = "GET" => calls[i].status = 200
            /\ calls[i].op = "DELETE" => calls[i].status = 404 )
    => outcome \in {"running", "returned"}

\* the index still listed two entries of the scenario, both already gone
C7_Witness ==
    /\ pc = "done"
    /\ outcome = "returned"
    /\ Len(SelectSeq(calls, IsDelete)) = 2
    /\ \A i \in CallIndices : IsDelete(calls[i]) => calls[i].status = 404

\* the subdirectory a scenario is registered with
RegisteredSubdir(n) == IF n = "variants-unsigned" THEN "linux-64" ELSE "noarch"

\* C10: after a successful index fetch, while no DELETE has failed, the DELETE
\* calls made so far followed by the ones delete_packages has left are the
\* file names of the index entries named after the scenario, each once, in
\* ascending order, all against the scenario's registered subdirectory; when
\* the handler has returned none is left.
C10_DeleteExactlyMatching ==
    LET gets == {i \in CallIndices : calls[i].op = "GET"}
        g    == CHOOSE i \in gets : \A j \in gets : j <= i
    IN  ( /\ DeleteRun
          /\ pc \in {"delete_package", "dispatch", "done"}
          /\ gets # {}
          /\ calls[g].status = 200
          /\ \A i \in (g + 1)..Len(calls) : Accepted(calls[i].status) )
        => LET issued   == [i \in 1..(Len(calls) - g) |-> calls[g + i]]
               left     == IF pc = "delete_package" THEN filenames ELSE <<>>
               all      == [i \in 1..Len(issued) |-> issued[i].filename]
                           \o left
               entries  == IF repodata.has_packages_conda
                           THEN repodata.packages_conda ELSE <<>>
               matching == {entries[i].filename :
                              i \in {j \in 1..Len(entries) :
                                       entries[j].info_name = name}}
           IN  /\ \A i \in 1..Len(issued) :
                     /\ IsDelete(issued[i])
                     /\ issued[i].subdir = RegisteredSubdir(name)
               /\ Range(all) = matching
               /\ \A i, j \in 1..Len(all) : i < j => StrLess(all[i], all[j])
               /\ pc # "delete_package" => Range(all) =
                     {issued[i].filename : i \in 1..Len(issued)}

\* the index lists 2.0.0, then 1.5.0 of another package, then 1.0.0: 1.0.0
\* and 2.0.0 are deleted, in that order
C10_Witness ==
    /\ pc = "done"
    /\ name = "all-signed"
    /\ repodata.packages_conda =
          << [filename |-> P200, info_name |-> "all-signed"],
             [filename |-> P150, info_name |-> "last-version-unsigned"],
             [filename |-> P100, info_name |-> "all-signed"] >>
    /\ Len(calls) = 4
    /\ calls[3].filename = P100 /\ calls[3].status = 200
    /\ calls[4].filename = P200 /\ calls[4].status = 404

=============================================================================
